---------------------------- MODULE Spec2Model ----------------------------
(***************************************************************************)
(* A model of the mtb toolkit (mqvist/mtb):                                *)
(*   - the differential-testing proxy of mtb/proxy.py  (ProxySpec)         *)
(*   - the port wiring of mtb/system.py and the receiver binding of        *)
(*     mtb/action.py                                      (PortSpec)       *)
(* Python runs single-threaded; a step of ProxySpec is one step of         *)
(* proxy_func or of an implementation it has called, so that a call an     *)
(* implementation makes back into the proxy (re-entrancy) and an exception *)
(* unwinding the stack are both visible.  A step of PortSpec is one whole  *)
(* call of connect, send or the receiver decorator.                        *)
(***************************************************************************)
EXTENDS Integers, Sequences, FiniteSets, TLC

VARIABLES
    \* ---- mtb/proxy.py ----
    calls,        \* the shared log: proxy._calls, a list of Call
    received,     \* per implementation: the invocations it has received, in order
    stack,        \* the active proxy_func frames, innermost last
    outcomes,     \* per logged call: what its caller saw (running/returned/raised)
    raised,       \* <<call id, implementation>>: that implementation's operation raised
    invoked,      \* every operation invoked on the proxy object, in order
    nestedBy,     \* implementations that called the proxy from inside an operation
    \* ---- mtb/system.py, mtb/action.py ----
    receiver,     \* per PortIn descriptor: _PortInDescriptor.receiver
    connected,    \* per function: its ActionInfo.connected, "none" before decoration
    receivers,    \* per PortOut: PortOut.receivers
    latest_value, \* per PortOut: PortOut.latest_value
    d,            \* per Component: the field the receivers of the tests assign
    connectLog,   \* the successful connect calls, in order: <<PortIn, PortOut>>
    lastSent,     \* per PortOut: the value of its most recent send, Nil before it
    firstBound,   \* per PortIn descriptor: the function of its first receiver binding
    lastOp,       \* the last port operation and how it ended
    delivered,    \* the receiver invocations made during the last port operation
    \* ---- mtb/system.py, mtb/action.py: Component construction ----
    consClass,    \* the class last instantiated: its members, in dir() order
    consResult,   \* "none", "built" or the error the constructor raised
    consTrace,    \* what the last __post_init__ did, in order
    consActions,  \* the Component's _actions: the ActionParam tuple of each
    invocations,  \* how many times an Action of the Component was invoked
    \* ---- mutable values: the objects copy() is applied to ----
    objs,         \* the record objects allocated so far: [x, inner], by identity
    parts,        \* the nested objects the records refer to: their field y
    \* ---- mtb/action.py: default values ----
    paramType,    \* the annotation of the action's parameter: "int" or "rec"
    hasProvider,  \* whether @action registered a default getter for it
    ownerD,       \* the owning Component's field d
    dAtConstruction, \* that field when the Component was constructed
    lastDefault,  \* what the last get_default_value returned
    lastDefOp,    \* the last default-value operation
    \* ---- examples/demo.py: the ATM demonstration ----
    cap,          \* the capability class handed to make_proxy
    proxyState,   \* "none", "built", or the error make_proxy raised
    cards,        \* the Bundle of cards of the running machine
    inserted_card, \* AtmMachine.inserted_card
    oracle,       \* AtmMachine.oracle: [state, card, pin_tries]
    real,         \* AtmMachine.real: [card, pin_tries, pin_ok, canceled]
    atmCalls,     \* AtmMachine.calls, the class-level call log
    atmTrace,     \* the outcome of each logged call, as it happened
    atmFail,      \* the exception that ended the running machine's run
    runs,         \* how many machines have been created
    issued,       \* the calls the running machine's rules made on the proxy
    \* ---- mtb/system.py: a PortOut carrying mutable values ----
    mReceivers,   \* PortOut.receivers, each by what its receiver function does
    mLatest,      \* PortOut.latest_value
    mSent,        \* the object the sender passed to the last send
    mSentWorth,   \* what that object was worth when send was called
    mHanded,      \* what the last operation handed to each receiver it invoked
    mLastOp,      \* the last operation on the PortOut
    \* ---- mtb/system.py: propagation through forwarding receivers ----
    wire,         \* per component, its PortOut's receivers list
    pstack,       \* the send calls in progress, outermost first
    sendOrigin,   \* the component the driver's send started at, 0 if none
    recvCount,    \* per component, how often that send invoked its receiver
    \* ---- mtb/action.py: get_type_default ----
    defType,      \* the type get_type_default is called with
    typeResult    \* what the call returned or raised

proxyVars == <<calls, received, stack, outcomes, raised, invoked, nestedBy>>
portVars  == <<receiver, connected, receivers, latest_value, d, connectLog,
               lastSent, firstBound, lastOp, delivered>>
consVars  == <<consClass, consResult, consTrace, consActions, invocations>>
\* The variables of the sections after the proxy and the ports.
heapVars  == <<objs, parts>>
defVars   == <<paramType, hasProvider, ownerD, dAtConstruction, lastDefault,
               lastDefOp>>
atmVars   == <<cap, proxyState, cards, inserted_card, oracle, real, atmCalls,
               atmTrace, atmFail, runs, issued>>
mutVars   == <<mReceivers, mLatest, mSent, mSentWorth, mHanded, mLastOp>>
propVars  == <<wire, pstack, sendOrigin, recvCount>>
typeVars  == <<defType, typeResult>>
extVars == <<consVars, heapVars, defVars, atmVars, mutVars, propVars, typeVars>>
vars == <<proxyVars, portVars, extVars>>

None == "None"

(***************************************************************************)
(* Bounds                                                                  *)
(***************************************************************************)
NumImpls == 2       \* the implementation list [A, B]
MaxCalls == 3       \* operations invoked on the proxy in one run
MaxDepth == 2       \* proxy_func frames active at once
MaxConnects == 2    \* successful connect calls in one run
MaxValue == 1       \* port values are 0..MaxValue
MaxMembers == 2     \* members of a Component class
MaxParams == 2      \* parameters of an action, self apart
MaxInvocations == 2 \* action invocations on one Component
MaxObjs == 3        \* record objects allocated in one run
NumCards == 1       \* the cards the strategy can build
MaxRuns == 2        \* machines created in one session
MaxSteps == 5       \* calls made on proxies in one session
MaxSends == 2       \* sends of a mutable value on one PortOut
NumNodes == 2       \* forwarding components
MaxWires == 2       \* connect calls between forwarding components
MaxNest == 4        \* send calls nested in one another
MaxFields == 2      \* fields of a dataclass type

Impls == 1..NumImpls

(***************************************************************************)
(* mtb/proxy.py                                                            *)
(***************************************************************************)
\* The capability class handed to make_proxy: two operations marked as
\* actions (func._action) and the two lifecycle hooks, which are not.
Members == {"call", "reset", "init", "teardown"}
Marked == {"call", "reset"}

\* Call(name, args, kwds); kwds is a dict, here a set of <<key, value>>.
Call(name, args, kwds) == [name |-> name, args |-> args, kwds |-> kwds]

\* The invocations the driver (or an implementation) makes on the proxy.
Invocations ==
    { Call("call", <<1, 2>>, {}),
      Call("call", <<1>>, {<<"t", 2>>}),
      Call("reset", <<>>, {}),
      Call("init", <<>>, {}),
      Call("teardown", <<>>, {}) }

\* make_proxy.create_body: the names that get a proxy method.
ProxyMethodsAll == Members
ProxyMethods == { name \in Members : name \in Marked }

Last(s) == s[Len(s)]
Top == stack[Len(stack)]
Running == [status |-> "running", by |-> 0, origin |-> 0]
Returned == [status |-> "returned", by |-> 0, origin |-> 0]
\* The exception object raised by implementation `by` during call `origin`.
Error(by, origin) == [status |-> "raised", by |-> by, origin |-> origin]

\* proxy_func up to its loop: append the Call to the log, then iterate.
\* The frame remembers which log entry it is forwarding.
ProxyFuncEnterPrepend(c) ==
    /\ calls' = <<c>> \o calls
    /\ outcomes' = Append(outcomes, Running)
    /\ stack' = Append(stack, [id |-> Len(calls) + 1, call |-> c, idx |-> 1,
                               inside |-> FALSE])
ProxyFuncEnter(c) ==
    /\ calls' = Append(calls, c)
    /\ outcomes' = Append(outcomes, Running)
    /\ stack' = Append(stack, [id |-> Len(calls) + 1, call |-> c, idx |-> 1,
                               inside |-> FALSE])

\* An operation the proxy class inherits from the capability class
\* unchanged: the body of the class's own method (pass).
InheritedMethod(c) ==
    UNCHANGED <<calls, outcomes, stack>>

\* proxy.<name>(*args, **kwds), by the driver or, re-entrantly, by the
\* implementation the innermost proxy_func is inside.
Invoke(c) ==
    /\ Len(invoked) < MaxCalls
    /\ \/ stack = <<>>
       \/ /\ stack # <<>>
          /\ Top.inside
          /\ Len(stack) < MaxDepth
    /\ invoked' = Append(invoked, c)
    /\ nestedBy' = IF stack # <<>> /\ c.name \in ProxyMethods
                   THEN nestedBy \cup {Top.idx} ELSE nestedBy
    /\ IF c.name \in ProxyMethods THEN ProxyFuncEnter(c) ELSE InheritedMethod(c)
    /\ UNCHANGED <<received, raised>>
    /\ UNCHANGED <<portVars, extVars>>

\* The loop body: func = getattr(obj, name); func(*args, **kwds).
\* The implementation's same-named operation starts with the same arguments.
ForwardDropKwds ==
    /\ stack # <<>>
    /\ ~Top.inside
    /\ Top.idx <= NumImpls
    /\ received' = [received EXCEPT ![Top.idx] =
            Append(@, [id |-> Top.id, name |-> Top.call.name,
                       args |-> Top.call.args, kwds |-> {}])]
    /\ stack' = [stack EXCEPT ![Len(stack)].inside = TRUE]
    /\ UNCHANGED <<calls, outcomes, raised, invoked, nestedBy>>
    /\ UNCHANGED <<portVars, extVars>>
Forward ==
    /\ stack # <<>>
    /\ ~Top.inside
    /\ Top.idx <= NumImpls
    /\ received' = [received EXCEPT ![Top.idx] =
            Append(@, [id |-> Top.id, name |-> Top.call.name,
                       args |-> Top.call.args, kwds |-> Top.call.kwds])]
    /\ stack' = [stack EXCEPT ![Len(stack)].inside = TRUE]
    /\ UNCHANGED <<calls, outcomes, raised, invoked, nestedBy>>
    /\ UNCHANGED <<portVars, extVars>>

\* The implementation's operation returns; the loop goes on to the next one.
ImplReturn ==
    /\ stack # <<>>
    /\ Top.inside
    /\ stack' = [stack EXCEPT ![Len(stack)] =
                    [@ EXCEPT !.idx = @ + 1, !.inside = FALSE]]
    /\ UNCHANGED <<calls, received, outcomes, raised, invoked, nestedBy>>
    /\ UNCHANGED <<portVars, extVars>>

\* What proxy_func does with an exception coming out of func(*args, **kwds):
\* it has no try, so the exception leaves every active frame, innermost
\* first, and each frame's caller sees it.
OnRaiseReplace(err) ==
    /\ stack' = <<>>
    /\ outcomes' = [n \in 1..Len(outcomes) |->
                      IF \E k \in 1..Len(stack) : stack[k].id = n
                      THEN Error(0, n) ELSE outcomes[n]]
OnRaiseSwallow(err) ==
    /\ stack' = [stack EXCEPT ![Len(stack)] =
                    [@ EXCEPT !.idx = @ + 1, !.inside = FALSE]]
    /\ outcomes' = outcomes
OnRaise(err) ==
    /\ stack' = <<>>
    /\ outcomes' = [n \in 1..Len(outcomes) |->
                      IF \E k \in 1..Len(stack) : stack[k].id = n
                      THEN err ELSE outcomes[n]]

\* The implementation's operation raises (a failed assertion of the
\* implementation under test).
ImplRaise ==
    /\ stack # <<>>
    /\ Top.inside
    /\ raised' = raised \cup { <<stack[k].id, stack[k].idx>> : k \in 1..Len(stack) }
    /\ OnRaise(Error(Top.idx, Top.id))
    /\ UNCHANGED <<calls, received, invoked, nestedBy>>
    /\ UNCHANGED <<portVars, extVars>>

\* The loop is exhausted: proxy_func returns None to its caller.
ProxyReturn ==
    /\ stack # <<>>
    /\ ~Top.inside
    /\ Top.idx = NumImpls + 1
    /\ outcomes' = [outcomes EXCEPT ![Top.id] = Returned]
    /\ stack' = SubSeq(stack, 1, Len(stack) - 1)
    /\ UNCHANGED <<calls, received, raised, invoked, nestedBy>>
    /\ UNCHANGED <<portVars, extVars>>

ProxyInit ==
    /\ calls = <<>>
    /\ received = [i \in Impls |-> <<>>]
    /\ stack = <<>>
    /\ outcomes = <<>>
    /\ raised = {}
    /\ invoked = <<>>
    /\ nestedBy = {}

(***************************************************************************)
(* mtb/system.py, mtb/action.py                                            *)
(***************************************************************************)
\* Python's None in a slot that otherwise holds an int.
Nil == -1
Values == 0..MaxValue

\* Two Components of one class, as in tests/system_test.py, the class
\* declaring two input ports, a cached output port (port_out's default) and
\* one declared with cached=False.
Comps == {"c1", "c2"}
InDescs == {"d_in", "e_in"}
OutDescs == {"d_out", "n_out"}
Cached(desc) == desc = "d_out"
\* The functions a receiver decorator is applied to.
Funcs == {"receive_d1", "receive_d2"}
\* A port object is made per Component by its descriptor's __get__.
PortIns == {<<"c1", "d_in">>, <<"c2", "d_in">>, <<"c1", "e_in">>}
PortOuts == {<<"c1", "d_out">>, <<"c1", "n_out">>}
Owner(port) == port[1]
Desc(port) == port[2]

NoPort == <<"-", "-">>
Op(op, pin, pout, desc, fn, value, pre, err) ==
    [op |-> op, pin |-> pin, pout |-> pout, desc |-> desc, fn |-> fn,
     value |-> value, pre |-> pre, err |-> err]

\* _PortInDescriptor._set_receiver: the error it raises, "ok" if none.
SetReceiverErrOverwrite(desc) == "ok"
SetReceiverErr(desc) ==
    IF receiver[desc] # None THEN "ModelingError" ELSE "ok"

\* @receiver(desc) def f: arg._set_receiver(f), then a fresh ActionInfo on f.
BindReceiver(desc, f) ==
    /\ firstBound' = IF firstBound[desc] = None
                     THEN [firstBound EXCEPT ![desc] = f] ELSE firstBound
    /\ lastOp' = Op("bind", NoPort, NoPort, desc, f, Nil, receiver[desc],
                    SetReceiverErr(desc))
    /\ delivered' = <<>>
    /\ IF SetReceiverErr(desc) = "ok"
       THEN /\ receiver' = [receiver EXCEPT ![desc] = f]
            /\ connected' = [connected EXCEPT ![f] = "False"]
       ELSE UNCHANGED <<receiver, connected>>
    /\ UNCHANGED <<receivers, latest_value, d, connectLog, lastSent>>
    /\ UNCHANGED <<proxyVars, extVars>>

\* PortIn._receive: receiver(self.owner, value); the receivers of the tests
\* assign the value to the owner's field d.
Receive(pin, value) ==
    [pin |-> pin, fn |-> receiver[Desc(pin)], owner |-> Owner(pin), value |-> value]
\* The field d of each Component after the invocations of `invs`, in order.
RECURSIVE AfterReceiving(_, _)
AfterReceiving(dd, invs) ==
    IF invs = <<>> THEN dd
    ELSE AfterReceiving([dd EXCEPT ![invs[1].owner] = invs[1].value], Tail(invs))

\* PortOut._connect: where the new receiver goes in the list.
ConnectInsertFirst(list, pin) == <<pin>> \o list
ConnectInsert(list, pin) == Append(list, pin)
\* PortOut._connect: cached ports send their latest value on connect.
ReplaysTruthy(pout) == Cached(Desc(pout)) /\ latest_value[pout] \notin {Nil, 0}
ReplaysAnyPort(pout) == latest_value[pout] # Nil
Replays(pout) == Cached(Desc(pout)) /\ latest_value[pout] # Nil

\* Component.__post_init__ makes an Action per Component for every function
\* carrying an ActionInfo; Action.connected reads the flag off the function.
ActionConnectedIn(flags, comp, f) == flags[f] = "True"
ActionConnected(comp, f) == ActionConnectedIn(connected, comp, f)

\* PortIn.connect when _safe_get_receiver raises: nothing was done yet.
ConnectRejectedAfterConnect(pin, pout) ==
    /\ receivers' = [receivers EXCEPT ![pout] = ConnectInsert(@, pin)]
    /\ UNCHANGED <<connected, latest_value, d, connectLog>>
ConnectRejected(pin, pout) ==
    UNCHANGED <<receivers, connected, latest_value, d, connectLog>>

\* PortIn.connect(port_out).
Connect(pin, pout) ==
    /\ delivered' = IF receiver[Desc(pin)] # None /\ Replays(pout)
                    THEN <<Receive(pin, latest_value[pout])>> ELSE <<>>
    /\ IF receiver[Desc(pin)] = None
       THEN /\ lastOp' = Op("connect", pin, pout, Desc(pin), None, Nil, None,
                            "ModelingError")
            /\ ConnectRejected(pin, pout)
       ELSE /\ Len(connectLog) < MaxConnects
            /\ lastOp' = Op("connect", pin, pout, Desc(pin), receiver[Desc(pin)],
                            Nil, None, "ok")
            /\ connected' = [connected EXCEPT ![receiver[Desc(pin)]] = "True"]
            /\ receivers' = [receivers EXCEPT ![pout] = ConnectInsert(@, pin)]
            /\ connectLog' = Append(connectLog, <<pin, pout>>)
            /\ d' = AfterReceiving(d, delivered')
            /\ UNCHANGED latest_value
    /\ UNCHANGED <<receiver, lastSent, firstBound>>
    /\ UNCHANGED <<proxyVars, extVars>>

\* copy(value): an int is immutable, copy returns an equal int.
Copy(value) == value

\* PortOut.send(value).
Send(pout, value) ==
    /\ latest_value' = [latest_value EXCEPT ![pout] = Copy(value)]
    /\ delivered' = [k \in 1..Len(receivers[pout]) |->
                        Receive(receivers[pout][k], latest_value'[pout])]
    /\ d' = AfterReceiving(d, delivered')
    /\ lastSent' = [lastSent EXCEPT ![pout] = value]
    /\ lastOp' = Op("send", NoPort, pout, None, None, value, None, "ok")
    /\ UNCHANGED <<receiver, connected, receivers, connectLog, firstBound>>
    /\ UNCHANGED <<proxyVars, extVars>>

PortInit ==
    /\ receiver = [desc \in InDescs |-> None]
    /\ connected = [f \in Funcs |-> "NoInfo"]
    /\ receivers = [pout \in PortOuts |-> <<>>]
    /\ latest_value = [pout \in PortOuts |-> Nil]
    /\ d = [c \in Comps |-> 0]
    /\ connectLog = <<>>
    /\ lastSent = [pout \in PortOuts |-> Nil]
    /\ firstBound = [desc \in InDescs |-> None]
    /\ lastOp = Op("init", NoPort, NoPort, None, None, Nil, None, "ok")
    /\ delivered = <<>>

PortNext ==
    \/ \E desc \in InDescs, f \in Funcs : BindReceiver(desc, f)
    \/ \E pin \in PortIns, pout \in PortOuts : Connect(pin, pout)
    \/ \E pout \in PortOuts, value \in Values : Send(pout, value)


(***************************************************************************)
(* mtb/system.py Component.__post_init__, mtb/action.py Action             *)
(***************************************************************************)
\* The parameter lists of an action, self apart: TRUE is a parameter with a
\* type annotation, FALSE one without.
ParamLists == UNION { [1..n -> BOOLEAN] : n \in 0..MaxParams }
\* A member of a Component class as __post_init__ classifies it.
ClassMembers ==
    { [kind |-> "action", params |-> ps] : ps \in ParamLists }
    \cup { [kind |-> k, params |-> <<>>] : k \in {"port_in", "port_out", "variable"} }
Classes == UNION { [1..n -> ClassMembers] : n \in 0..MaxMembers }

\* Action.__post_init__: the first parameter not in argspec.annotations
\* raises ModelingError.
ParamsErrorNever(params) == FALSE
ParamsError(params) == \E k \in 1..Len(params) : ~params[k]

\* Component.__post_init__ from member i on: the events so far, the actions
\* registered so far; init() is called after the scan and the variables.
RECURSIVE PostInitInitFirst(_, _, _, _)
PostInitInitFirst(cls, i, events, acts) ==
    IF i > Len(cls)
    THEN [result |-> "built", events |-> Append(events, "variables"), acts |-> acts]
    ELSE LET ev == IF i = 1 THEN Append(events, "init") ELSE events
         IN  IF cls[i].kind = "action"
             THEN IF ParamsError(cls[i].params)
                  THEN [result |-> "ModelingError", events |-> Append(ev, "raise"),
                        acts |-> <<>>]
                  ELSE PostInitInitFirst(cls, i + 1, Append(ev, "action"),
                                         Append(acts, cls[i].params))
             ELSE PostInitInitFirst(cls, i + 1, Append(ev, cls[i].kind), acts)
RECURSIVE PostInit(_, _, _, _)
PostInit(cls, i, events, acts) ==
    IF i > Len(cls)
    THEN [result |-> "built", events |-> events \o <<"variables", "init">>,
          acts |-> acts]
    ELSE IF cls[i].kind = "action"
         THEN IF ParamsError(cls[i].params)
              THEN [result |-> "ModelingError", events |-> Append(events, "raise"),
                    acts |-> <<>>]
              ELSE PostInit(cls, i + 1, Append(events, "action"),
                            Append(acts, cls[i].params))
         ELSE PostInit(cls, i + 1, Append(events, cls[i].kind), acts)

\* c = Cls(): the dataclass __init__ runs __post_init__.  A Component is
\* constructed once.
Construct(cls) ==
    LET r == PostInit(cls, 1, <<>>, <<>>)
    IN  /\ consResult = "none"
        /\ consClass' = cls
        /\ consResult' = r.result
        /\ consTrace' = r.events
        /\ consActions' = r.acts
        /\ invocations' = 0
        /\ UNCHANGED <<proxyVars, portVars, heapVars, defVars, atmVars, mutVars, propVars, typeVars>>

\* a = c._actions[k]; a(...): possible only on a Component that was built.
InvokeAction(k) ==
    /\ consResult = "built"
    /\ k \in 1..Len(consActions)
    /\ invocations < MaxInvocations
    /\ invocations' = invocations + 1
    /\ UNCHANGED <<consClass, consResult, consTrace, consActions>>
    /\ UNCHANGED <<proxyVars, portVars, heapVars, defVars, atmVars, mutVars, propVars, typeVars>>

ConsInit ==
    /\ consClass = <<>>
    /\ consResult = "none"
    /\ consTrace = <<>>
    /\ consActions = <<>>
    /\ invocations = 0

ConsNext ==
    \/ \E cls \in Classes : Construct(cls)
    \/ \E k \in 1..MaxMembers : InvokeAction(k)


(***************************************************************************)
(* Values with identity.  An int is immutable.  A record (a dataclass       *)
(* instance) is an object with a field x and a field inner that refers to  *)
(* a nested mutable object with a field y.                                 *)
(***************************************************************************)
NoneVal == [kind |-> "none", v |-> 0]
IntVal(n) == [kind |-> "int", v |-> n]
Ref(id) == [kind |-> "ref", v |-> id]
\* What a value is worth, nested part included: what == compares.
DeepIn(O, P, val) ==
    IF val.kind = "ref"
    THEN [kind |-> "rec", x |-> O[val.v].x, y |-> P[O[val.v].inner]]
    ELSE [kind |-> val.kind, x |-> val.v, y |-> 0]
Deep(val) == DeepIn(objs, parts, val)
HeapInit ==
    /\ objs = <<>>
    /\ parts = <<>>

(***************************************************************************)
(* mtb/action.py: ActionParam.get_default_value                            *)
(***************************************************************************)
\* The registered getter of the tests: lambda self: self.d.
ProviderYieldFrozen == dAtConstruction
ProviderYield == ownerD

\* default_value = self.get_default(owner) if self.get_default else None
GotDefault == IF hasProvider THEN ProviderYield ELSE NoneVal

\* a(value): the action of the tests assigns its argument to the field.
\* The caller passes None, an int, or a record it has just built.
SetD(kind, x, y) ==
    /\ kind = "none" \/ (paramType = "int" <=> kind = "int")
    /\ kind \in {"none", "int"} => y = 0
    /\ kind = "none" => x = 0
    /\ kind = "rec" => Len(objs) < MaxObjs
    /\ IF kind = "rec"
       THEN /\ parts' = Append(parts, y)
            /\ objs' = Append(objs, [x |-> x, inner |-> Len(parts) + 1])
            /\ ownerD' = Ref(Len(objs) + 1)
       ELSE /\ ownerD' = [kind |-> kind, v |-> x]
            /\ UNCHANGED heapVars
    /\ lastDefOp' = [op |-> "set_d", typeDefault |-> FALSE]
    /\ UNCHANGED <<paramType, hasProvider, dAtConstruction, lastDefault>>
    /\ UNCHANGED <<proxyVars, portVars, consVars, atmVars, mutVars, propVars, typeVars>>

\* get_default_value(owner): a copy of what the getter gave unless that is
\* None, else get_type_default(self.type).  copy() of an int is the int;
\* copy() of a record is a new record with the same fields, so the same
\* nested object; get_type_default builds a record with defaulted fields.
GetDefaultValue ==
    LET got == GotDefault
    IN  /\ (got.kind = "ref" \/ (got.kind = "none" /\ paramType = "rec"))
              => Len(objs) < MaxObjs
        /\ IF got.kind # "none"
           THEN IF got.kind = "ref"
                THEN /\ objs' = Append(objs, objs[got.v])
                     /\ lastDefault' = Ref(Len(objs) + 1)
                     /\ UNCHANGED parts
                ELSE /\ lastDefault' = got
                     /\ UNCHANGED heapVars
           ELSE IF paramType = "rec"
                THEN /\ parts' = Append(parts, 0)
                     /\ objs' = Append(objs, [x |-> 0, inner |-> Len(parts) + 1])
                     /\ lastDefault' = Ref(Len(objs) + 1)
                ELSE /\ lastDefault' = IntVal(0)
                     /\ UNCHANGED heapVars
        /\ lastDefOp' = [op |-> "get_default", typeDefault |-> got.kind = "none"]
        /\ UNCHANGED <<paramType, hasProvider, ownerD, dAtConstruction>>
        /\ UNCHANGED <<proxyVars, portVars, consVars, atmVars, mutVars, propVars, typeVars>>

\* The caller edits the default it was given before submitting it: a field
\* of the record itself ...
MutateDefaultTop(x) ==
    /\ lastDefault.kind = "ref"
    /\ objs[lastDefault.v].x # x
    /\ objs' = [objs EXCEPT ![lastDefault.v].x = x]
    /\ lastDefOp' = [op |-> "mutate_top", typeDefault |-> FALSE]
    /\ UNCHANGED <<parts, paramType, hasProvider, ownerD, dAtConstruction, lastDefault>>
    /\ UNCHANGED <<proxyVars, portVars, consVars, atmVars, mutVars, propVars, typeVars>>
\* ... or a field of the object nested in it.
MutateDefaultNested(y) ==
    /\ lastDefault.kind = "ref"
    /\ parts[objs[lastDefault.v].inner] # y
    /\ parts' = [parts EXCEPT ![objs[lastDefault.v].inner] = y]
    /\ lastDefOp' = [op |-> "mutate_nested", typeDefault |-> FALSE]
    /\ UNCHANGED <<objs, paramType, hasProvider, ownerD, dAtConstruction, lastDefault>>
    /\ UNCHANGED <<proxyVars, portVars, consVars, atmVars, mutVars, propVars, typeVars>>

\* The Component of tests/system_test.py (d: int = 0), or one whose field
\* holds a record or None; its action with or without a registered getter.
DefInit ==
    /\ paramType \in {"int", "rec"}
    /\ hasProvider \in BOOLEAN
    /\ ownerD = IF paramType = "int" THEN IntVal(0) ELSE NoneVal
    /\ dAtConstruction = ownerD
    /\ lastDefault = NoneVal
    /\ lastDefOp = [op |-> "init", typeDefault |-> FALSE]

DefNext ==
    \/ \E kind \in {"none", "int", "rec"}, x \in Values, y \in Values :
          SetD(kind, x, y)
    \/ GetDefaultValue
    \/ \E x \in Values : MutateDefaultTop(x)
    \/ \E y \in Values : MutateDefaultNested(y)


(***************************************************************************)
(* examples/demo.py: the ATM demonstration                                 *)
(***************************************************************************)
\* Card(name, pin): card k has PIN k; 0 is no card's PIN.
AtmCards == 1..NumCards
CardPin(card) == card
AtmPins == 0..NumCards
\* MenuItem = Enum("MenuItem", "withdraw balance quit"): members valued 1..3.
MenuItem == <<"withdraw", "balance", "quit">>
Item(name) == CHOOSE i \in 1..Len(MenuItem) : MenuItem[i] = name

AtmActions == {"insert_card", "enter_pin", "cancel", "return_card",
               "choose_menu_item"}
\* A capability class, as make_proxy sees it: its abstract methods and the
\* functions carrying the _action mark.  AtmIf is the demo's: every method
\* abstract, none marked (the marks are on AtmOracle's methods).
AtmIf == [abstract |-> AtmActions \cup {"init", "teardown"}, marked |-> {}]
\* The same interface with plain methods, and with its operations marked
\* the way tests/proxy_test.py marks them.
PlainIf == [abstract |-> {}, marked |-> {}]
MarkedIf == [abstract |-> {}, marked |-> AtmActions]
CapClasses == {AtmIf, PlainIf, MarkedIf}

\* make_proxy: new_class gives a proxy method to each marked function;
\* proxy() raises TypeError while an abstract method is left.
MakeProxy(cls) == IF cls.abstract \subseteq cls.marked THEN "built" ELSE "TypeError"

FreshOracle == [state |-> "Idle", card |-> Nil, pin_tries |-> 0]
FreshReal == [card |-> Nil, pin_tries |-> 0, pin_ok |-> FALSE, canceled |-> FALSE]
OState(name) == [state |-> name, card |-> Nil, pin_tries |-> 0]
Ok(st) == [fail |-> "none", st |-> st]
Fails(err, st) == [fail |-> err, st |-> st]

\* AtmOracle's methods.  enter_pin unpacks the state as (card, pin_tries),
\* which raises ValueError for the field-less states.
OracleCall(o, c) ==
    CASE c.name = "insert_card" ->
            Ok([state |-> "EnterPin", card |-> c.args[1], pin_tries |-> 0])
      [] c.name = "enter_pin" ->
            IF o.state # "EnterPin" THEN Fails("ValueError", o)
            ELSE IF ~(o.pin_tries < 3) THEN Fails("AssertionError", o)
            ELSE IF c.args[1] = CardPin(o.card) THEN Ok(OState("Menu"))
            ELSE IF o.pin_tries >= 2 THEN Ok(OState("ReturnCard"))
            ELSE Ok([o EXCEPT !.pin_tries = o.pin_tries + 1])
      [] c.name = "cancel" -> Ok(OState("ReturnCard"))
      [] c.name = "return_card" -> Ok(OState("Idle"))
      [] c.name = "choose_menu_item" ->
            CASE MenuItem[c.args[1]] = "withdraw" -> Ok(OState("Withdraw"))
              [] MenuItem[c.args[1]] = "balance" -> Ok(OState("Balance"))
              [] MenuItem[c.args[1]] = "quit" -> Ok(OState("ReturnCard"))

\* RealAtm's methods, each behind its asserts.
RealCall(r, c) ==
    CASE c.name = "insert_card" ->
            IF r.card = Nil /\ r.pin_tries = 0 /\ ~r.pin_ok /\ ~r.canceled
            THEN Ok([r EXCEPT !.card = c.args[1]])
            ELSE Fails("AssertionError", r)
      [] c.name = "enter_pin" ->
            IF ~(r.card # Nil /\ r.pin_tries < 3 /\ ~r.pin_ok /\ ~r.canceled)
            THEN Fails("AssertionError", r)
            ELSE IF c.args[1] = CardPin(r.card) THEN Ok([r EXCEPT !.pin_ok = TRUE])
            ELSE IF r.pin_tries >= 1 THEN Ok([r EXCEPT !.canceled = TRUE])
            ELSE Ok([r EXCEPT !.pin_tries = r.pin_tries + 1])
      [] c.name = "cancel" ->
            IF r.card # Nil THEN Ok([r EXCEPT !.canceled = TRUE])
            ELSE Fails("AssertionError", r)
      [] c.name = "return_card" ->
            IF r.card # Nil /\ r.canceled THEN Ok(FreshReal)
            ELSE Fails("AssertionError", r)
      [] c.name = "choose_menu_item" ->
            IF ~(r.card # Nil /\ r.pin_ok) THEN Fails("AssertionError", r)
            ELSE IF MenuItem[c.args[1]] = "quit" THEN Ok([r EXCEPT !.canceled = TRUE])
            ELSE Ok(r)

\* proxy_func over [oracle, real]: the oracle first, then the real one; an
\* exception of the first leaves the second uncalled.
ProxyCall(o, r, c) ==
    LET a == OracleCall(o, c)
        b == RealCall(r, c)
    IN  IF a.fail # "none"
        THEN [fail |-> a.fail, by |-> "oracle", oracle |-> o, real |-> r]
        ELSE [fail |-> b.fail, by |-> IF b.fail = "none" THEN "-" ELSE "real",
              oracle |-> a.st, real |-> b.st]

\* AtmMachine() and its @initialize rule: fresh implementations, a proxy
\* over them that logs to the class-level list.
StartRun ==
    /\ runs < MaxRuns
    /\ runs' = runs + 1
    /\ oracle' = FreshOracle
    /\ real' = FreshReal
    /\ proxyState' = MakeProxy(cap)
    /\ cards' = {}
    /\ inserted_card' = Nil
    /\ atmFail' = "none"
    /\ issued' = <<>>
    /\ UNCHANGED <<cap, atmCalls, atmTrace>>
    /\ UNCHANGED <<proxyVars, portVars, consVars, heapVars, defVars, mutVars, propVars, typeVars>>

\* @rule(target=cards, card=st.builds(Card))
AddCard(card) ==
    /\ proxyState = "built"
    /\ atmFail = "none"
    /\ card \notin cards
    /\ cards' = cards \cup {card}
    /\ UNCHANGED <<cap, proxyState, inserted_card, oracle, real, atmCalls,
                   atmTrace, atmFail, runs, issued>>
    /\ UNCHANGED <<proxyVars, portVars, consVars, heapVars, defVars, mutVars, propVars, typeVars>>

\* self.proxy.<name>(...): a proxy method where the name is marked, else
\* the capability class's own method (pass).
OnProxy(c) ==
    /\ proxyState = "built"
    /\ atmFail = "none"
    /\ Len(atmCalls) < MaxSteps
    /\ Len(issued) < MaxSteps
    /\ issued' = Append(issued, c)
    /\ IF c.name \in cap.marked
       THEN LET out == ProxyCall(oracle, real, c)
            IN  /\ atmCalls' = Append(atmCalls, c)
                /\ atmTrace' = Append(atmTrace, out)
                /\ oracle' = out.oracle
                /\ real' = out.real
                /\ atmFail' = out.fail
       ELSE UNCHANGED <<atmCalls, atmTrace, oracle, real, atmFail>>
    /\ UNCHANGED <<cap, proxyState, cards, runs>>
    /\ UNCHANGED <<proxyVars, portVars, consVars, heapVars, defVars, mutVars, propVars, typeVars>>

\* The rules, each behind its precondition on the oracle's state.
RuleInsertCard(card) ==
    /\ oracle.state = "Idle"
    /\ card \in cards
    /\ inserted_card' = card
    /\ OnProxy(Call("insert_card", <<card>>, {}))
RuleEnterPin(pin, correct) ==
    /\ oracle.state = "EnterPin"
    /\ inserted_card # Nil
    /\ IF correct THEN pin = CardPin(inserted_card) ELSE pin # CardPin(inserted_card)
    /\ UNCHANGED inserted_card
    /\ OnProxy(Call("enter_pin", <<pin>>, {}))
RuleChooseMenuItem(item) ==
    /\ oracle.state = "Menu"
    /\ UNCHANGED inserted_card
    /\ OnProxy(Call("choose_menu_item", <<item>>, {}))
RuleReturnCard ==
    /\ oracle.state = "ReturnCard"
    /\ UNCHANGED inserted_card
    /\ OnProxy(Call("return_card", <<>>, {}))

AtmInit ==
    /\ cap \in CapClasses
    /\ proxyState = "none"
    /\ cards = {}
    /\ inserted_card = Nil
    /\ oracle = FreshOracle
    /\ real = FreshReal
    /\ atmCalls = <<>>
    /\ atmTrace = <<>>
    /\ atmFail = "none"
    /\ runs = 0
    /\ issued = <<>>

AtmNext ==
    \/ StartRun
    \/ \E card \in AtmCards : AddCard(card)
    \/ \E card \in AtmCards : RuleInsertCard(card)
    \/ \E pin \in AtmPins, correct \in BOOLEAN : RuleEnterPin(pin, correct)
    \/ \E item \in 1..Len(MenuItem) : RuleChooseMenuItem(item)
    \/ RuleReturnCard


(***************************************************************************)
(* mtb/system.py: PortOut.send and PortOut._connect over mutable values    *)
(***************************************************************************)
\* What a receiver function does with the value it is handed: keep it
\* (self.d = d), assign a field of it, or assign a field of its nested part.
ReceiverKinds == {"keep", "set_x", "set_y"}
Bump(n) == (n + 1) % (MaxValue + 1)

\* for receiver in self.receivers: receiver._receive(ref), from the k-th
\* on, over the heap (O, P): every receiver is handed the same object.
RECURSIVE ReceiveAll(_, _, _, _, _, _)
ReceiveAll(recvs, k, ref, O, P, handed) ==
    IF k > Len(recvs) THEN [objs |-> O, parts |-> P, handed |-> handed]
    ELSE LET h == Append(handed, [fn |-> recvs[k], worth |-> DeepIn(O, P, Ref(ref))])
         IN  CASE recvs[k] = "keep" -> ReceiveAll(recvs, k + 1, ref, O, P, h)
               [] recvs[k] = "set_x" ->
                     ReceiveAll(recvs, k + 1, ref,
                                [O EXCEPT ![ref].x = Bump(O[ref].x)], P, h)
               [] recvs[k] = "set_y" ->
                     ReceiveAll(recvs, k + 1, ref, O,
                                [P EXCEPT ![O[ref].inner] = Bump(P[O[ref].inner])], h)

\* The sender builds a record and calls send(value):
\* self.latest_value = copy(value), then every receiver in list order is
\* handed self.latest_value.
MutSend(x, y) ==
    LET sent == Len(objs) + 1
        P1 == Append(parts, y)
        O1 == Append(objs, [x |-> x, inner |-> Len(P1)])
        O2 == Append(O1, O1[sent])
        r == ReceiveAll(mReceivers, 1, sent + 1, O2, P1, <<>>)
    IN  /\ Len(objs) < 2 * MaxSends
        /\ objs' = r.objs
        /\ parts' = r.parts
        /\ mSent' = Ref(sent)
        /\ mLatest' = Ref(sent + 1)
        /\ mSentWorth' = [kind |-> "rec", x |-> x, y |-> y]
        /\ mHanded' = r.handed
        /\ mLastOp' = "send"
        /\ UNCHANGED mReceivers
        /\ UNCHANGED <<proxyVars, portVars, consVars, defVars, atmVars, propVars, typeVars>>

\* port_in.connect(port_out) for a PortIn whose receiver function is fn:
\* _connect appends it and, the port being cached, hands it latest_value
\* if there is one.
MutConnect(fn) ==
    LET r == ReceiveAll(<<fn>>, 1, mLatest.v, objs, parts, <<>>)
    IN  /\ Len(mReceivers) < MaxConnects
        /\ mReceivers' = Append(mReceivers, fn)
        /\ IF mLatest # NoneVal
           THEN /\ objs' = r.objs
                /\ parts' = r.parts
                /\ mHanded' = r.handed
           ELSE /\ mHanded' = <<>>
                /\ UNCHANGED heapVars
        /\ mLastOp' = "connect"
        /\ UNCHANGED <<mLatest, mSent, mSentWorth>>
        /\ UNCHANGED <<proxyVars, portVars, consVars, defVars, atmVars, propVars, typeVars>>

MutInit ==
    /\ mReceivers = <<>>
    /\ mLatest = NoneVal
    /\ mSent = NoneVal
    /\ mSentWorth = Deep(NoneVal)
    /\ mHanded = <<>>
    /\ mLastOp = "init"

MutNext ==
    \/ \E x \in Values, y \in Values : MutSend(x, y)
    \/ \E fn \in ReceiverKinds : MutConnect(fn)


(***************************************************************************)
(* mtb/system.py: PortOut.send and PortIn._receive, call by call.          *)
(* Each component has a PortIn whose receiver function sends what it       *)
(* receives on the component's own PortOut (declared cached=False, so that *)
(* connect delivers nothing).                                              *)
(***************************************************************************)
Nodes == 1..NumNodes
Wires == LET RECURSIVE Sum(_)
             Sum(n) == IF n = 0 THEN 0 ELSE Len(wire[n]) + Sum(n - 1)
         IN  Sum(NumNodes)
PTop == pstack[Len(pstack)]

\* port_in.connect(port_out): b's PortIn is appended to the receivers of
\* a's PortOut.
Wire(a, b) ==
    /\ pstack = <<>>
    /\ Wires < MaxWires
    /\ wire' = [wire EXCEPT ![a] = Append(@, b)]
    /\ sendOrigin' = 0
    /\ recvCount' = [n \in Nodes |-> 0]
    /\ UNCHANGED pstack
    /\ UNCHANGED <<proxyVars, portVars, consVars, heapVars, defVars, atmVars, mutVars, typeVars>>

\* The driver calls send on n's PortOut: the loop over its receivers starts.
StartSend(n) ==
    /\ pstack = <<>>
    /\ pstack' = <<[node |-> n, idx |-> 1]>>
    /\ sendOrigin' = n
    /\ recvCount' = [m \in Nodes |-> 0]
    /\ UNCHANGED wire
    /\ UNCHANGED <<proxyVars, portVars, consVars, heapVars, defVars, atmVars, mutVars, typeVars>>

\* receiver._receive(value) for component m: its receiver function runs
\* and calls send on m's PortOut, whatever calls are already in progress.
NestedSendOnce(m) ==
    IF \E k \in 1..Len(pstack) : pstack[k].node = m
    THEN [pstack EXCEPT ![Len(pstack)].idx = @ + 1]
    ELSE Append(pstack, [node |-> m, idx |-> 1])
NestedSend(m) == Append(pstack, [node |-> m, idx |-> 1])

\* One turn of `for receiver in self.receivers` in the innermost send.
InvokeReceiver ==
    /\ pstack # <<>>
    /\ PTop.idx <= Len(wire[PTop.node])
    /\ Len(pstack) < MaxNest
    /\ LET m == wire[PTop.node][PTop.idx]
       IN  /\ pstack' = NestedSend(m)
           /\ recvCount' = [recvCount EXCEPT ![m] = @ + 1]
    /\ UNCHANGED <<wire, sendOrigin>>
    /\ UNCHANGED <<proxyVars, portVars, consVars, heapVars, defVars, atmVars, mutVars, typeVars>>

\* The loop of the innermost send is exhausted: it returns to the receiver
\* function that called it, which returns to the loop that invoked it.
SendReturns ==
    /\ pstack # <<>>
    /\ PTop.idx > Len(wire[PTop.node])
    /\ pstack' = IF Len(pstack) = 1 THEN <<>>
                 ELSE [SubSeq(pstack, 1, Len(pstack) - 1)
                          EXCEPT ![Len(pstack) - 1].idx = @ + 1]
    /\ UNCHANGED <<wire, sendOrigin, recvCount>>
    /\ UNCHANGED <<proxyVars, portVars, consVars, heapVars, defVars, atmVars, mutVars, typeVars>>

PropInit ==
    /\ wire = [n \in Nodes |-> <<>>]
    /\ pstack = <<>>
    /\ sendOrigin = 0
    /\ recvCount = [n \in Nodes |-> 0]

PropNext ==
    \/ \E a \in Nodes, b \in Nodes : Wire(a, b)
    \/ \E n \in Nodes : StartSend(n)
    \/ InvokeReceiver
    \/ SendReturns


(***************************************************************************)
(* mtb/action.py: get_type_default                                         *)
(***************************************************************************)
\* A type, as an annotation gives it: what sort of type it is, its name,
\* and for a dataclass the types of its fields.
Ty(kind, name, fields) == [kind |-> kind, name |-> name, fields |-> fields]
IntType == Ty("plain", "int", <<>>)
PlainTypes == { Ty("plain", n, <<>>) : n \in {"int", "str", "bool", "Decimal"} }
CollectionTypes == { Ty("collection", n, <<>>) : n \in {"list", "dict", "list[int]"} }
OpaqueTypes == { Ty("opaque", n, <<>>) : n \in {"object", "Any", "Callable"} }
EnumTypes == { Ty("enum", n, <<>>) : n \in {"MenuItem", "Empty"} }
AtomicTypes == PlainTypes \cup CollectionTypes \cup OpaqueTypes \cup EnumTypes
DataclassesOver(S) ==
    { Ty("dataclass", "dataclass", fs) :
          fs \in UNION { [1..n -> S] : n \in 0..MaxFields } }
\* Dataclasses whose fields are themselves dataclasses.
NestedFieldTypes ==
    { IntType,
      Ty("dataclass", "dataclass", <<IntType, Ty("enum", "MenuItem", <<>>)>>),
      Ty("dataclass", "dataclass", <<Ty("collection", "list", <<>>)>>),
      Ty("dataclass", "dataclass", <<Ty("opaque", "Any", <<>>)>>) }
TypeInputs ==
    AtomicTypes \cup DataclassesOver(AtomicTypes) \cup DataclassesOver(NestedFieldTypes)

\* list(type) of an Enum class: its members in definition order.
EnumMembers(name) == IF name = "MenuItem" THEN MenuItem ELSE <<>>
\* typing constructs that are not classes: issubclass raises TypeError.
NotAClass == {"Callable"}
\* Classes that cannot be called without arguments: type() raises TypeError.
NotCallable == {"Any"}
\* type(): what the no-argument constructor returns.
ZeroOf(name) ==
    CASE name = "int" -> "0"
      [] name = "str" -> "''"
      [] name = "bool" -> "False"
      [] name = "Decimal" -> "Decimal('0')"
      [] name = "list" -> "[]"
      [] name = "list[int]" -> "[]"
      [] name = "dict" -> "{}"
      [] name = "object" -> "object()"

Atom(a) == [kind |-> "atom", atom |-> a, fields |-> <<>>]
RecordOf(fs) == [kind |-> "record", atom |-> "", fields |-> fs]
Returns(v) == [err |-> "none", val |-> v]
Raises(e) == [err |-> e, val |-> Atom("")]

RECURSIVE get_type_default(_)
get_type_default(type) ==
    IF type.name \in NotAClass THEN Raises("TypeError")
    ELSE IF type.kind = "enum"
    THEN IF EnumMembers(type.name) = <<>> THEN Raises("IndexError")
         ELSE Returns(Atom(EnumMembers(type.name)[1]))
    ELSE IF type.kind = "dataclass"
    THEN LET args == [i \in 1..Len(type.fields) |-> get_type_default(type.fields[i])]
             bad == { i \in 1..Len(args) : args[i].err # "none" }
         IN  IF bad # {}
             THEN Raises(args[CHOOSE i \in bad : \A j \in bad : i <= j].err)
             ELSE Returns(RecordOf([i \in 1..Len(args) |-> args[i].val]))
    ELSE IF type.name \in NotCallable THEN Raises("TypeError")
    ELSE Returns(Atom(ZeroOf(type.name)))

Pending == [err |-> "pending", val |-> Atom("")]

\* get_type_default(self.type), as ActionParam.get_default_value calls it
\* for a parameter without a default getter.
GetTypeDefault ==
    /\ typeResult = Pending
    /\ typeResult' = get_type_default(defType)
    /\ UNCHANGED defType
    /\ UNCHANGED <<proxyVars, portVars, consVars, heapVars, defVars, atmVars, mutVars, propVars>>

TypeInit ==
    /\ defType \in TypeInputs
    /\ typeResult = Pending

TypeNext == GetTypeDefault

ProxyNext ==
    \/ \E c \in Invocations : Invoke(c)
    \/ Forward
    \/ ImplReturn
    \/ ImplRaise
    \/ ProxyReturn

ProxySpecInit ==
    /\ defType = IntType
    /\ paramType = "int" /\ hasProvider = TRUE
    /\ cap = AtmIf
    /\ ProxyInit /\ PortInit /\ ConsInit /\ HeapInit /\ DefInit /\ AtmInit /\ MutInit /\ PropInit /\ TypeInit

ProxySpec == ProxySpecInit /\ [][ProxyNext]_vars

PortSpecInit ==
    /\ defType = IntType
    /\ paramType = "int" /\ hasProvider = TRUE
    /\ cap = AtmIf
    /\ ProxyInit /\ PortInit /\ ConsInit /\ HeapInit /\ DefInit /\ AtmInit /\ MutInit /\ PropInit /\ TypeInit

PortSpec == PortSpecInit /\ [][PortNext]_vars

ConsSpecInit ==
    /\ defType = IntType
    /\ paramType = "int" /\ hasProvider = TRUE
    /\ cap = AtmIf
    /\ ProxyInit /\ PortInit /\ ConsInit /\ HeapInit /\ DefInit /\ AtmInit /\ MutInit /\ PropInit /\ TypeInit

ConsSpec == ConsSpecInit /\ [][ConsNext]_vars

DefSpecInit ==
    /\ defType = IntType
    /\ cap = AtmIf
    /\ ProxyInit /\ PortInit /\ ConsInit /\ HeapInit /\ DefInit /\ AtmInit /\ MutInit /\ PropInit /\ TypeInit

DefSpec == DefSpecInit /\ [][DefNext]_vars

AtmSpecInit ==
    /\ defType = IntType
    /\ paramType = "int" /\ hasProvider = TRUE
    /\ ProxyInit /\ PortInit /\ ConsInit /\ HeapInit /\ DefInit /\ AtmInit /\ MutInit /\ PropInit /\ TypeInit

AtmSpec == AtmSpecInit /\ [][AtmNext]_vars

MutSpecInit ==
    /\ defType = IntType
    /\ paramType = "int" /\ hasProvider = TRUE
    /\ cap = AtmIf
    /\ ProxyInit /\ PortInit /\ ConsInit /\ HeapInit /\ DefInit /\ AtmInit /\ MutInit /\ PropInit /\ TypeInit

MutSpec == MutSpecInit /\ [][MutNext]_vars

TypeSpecInit ==
    /\ paramType = "int" /\ hasProvider = TRUE
    /\ cap = AtmIf
    /\ ProxyInit /\ PortInit /\ ConsInit /\ HeapInit /\ DefInit /\ AtmInit /\ MutInit /\ PropInit /\ TypeInit

TypeSpec == TypeSpecInit /\ [][TypeNext]_vars

PropSpecInit ==
    /\ defType = IntType
    /\ paramType = "int" /\ hasProvider = TRUE
    /\ cap = AtmIf
    /\ ProxyInit /\ PortInit /\ ConsInit /\ HeapInit /\ DefInit /\ AtmInit /\ MutInit /\ PropInit /\ TypeInit

\* A call in progress keeps running: the interpreter takes its next step.
PropSpec ==
    PropSpecInit /\ [][PropNext]_vars /\ WF_vars(InvokeReceiver) /\ WF_vars(SendReturns)


(***************************************************************************)
(* Claims about the proxy                                                  *)
(***************************************************************************)
IsMarked(c) == c.name \in Marked
NoCallInProgress == stack = <<>>
\* What an implementation receives, without the model's link to the log.
AsCall(r) == Call(r.name, r.args, r.kwds)
Calls(i) == [n \in 1..Len(received[i]) |-> AsCall(received[i][n])]
Ids(i) == [n \in 1..Len(received[i]) |-> received[i][n].id]
Increasing(s) == \A p, q \in 1..Len(s) : p < q => s[p] < s[q]
RECURSIVE IsSubseq(_, _)
IsSubseq(s, t) ==
    IF s = <<>> THEN TRUE
    ELSE IF t = <<>> THEN FALSE
    ELSE IF s[1] = t[1] THEN IsSubseq(Tail(s), Tail(t))
    ELSE IsSubseq(s, Tail(t))
\* Log entry n was delivered to implementation i.
DeliveredTo(n, i) == \E p \in 1..Len(received[i]) : received[i][p].id = n
\* The log entries that reach implementation i: no implementation before it
\* raised during the call.
RECURSIVE Reaching(_, _)
Reaching(i, n) ==
    IF n = 0 THEN <<>>
    ELSE IF \E k \in Impls : k < i /\ <<n, k>> \in raised
         THEN Reaching(i, n - 1)
         ELSE Append(Reaching(i, n - 1), calls[n])

\* C1: after any sequence of calls to proxied operations, made one after
\* another, in which no implementation raises, the shared log is exactly
\* the sequence of those calls (name, positional and keyword arguments,
\* order) and each implementation has received exactly that sequence, in
\* order, on the same-named operation with the same arguments.
C1_LogAndDelivery ==
    (NoCallInProgress /\ raised = {} /\ nestedBy = {}) =>
        /\ calls = SelectSeq(invoked, IsMarked)
        /\ \A i \in Impls : Calls(i) = calls /\ Ids(i) = [n \in 1..Len(calls) |-> n]
C1_Witness ==
    /\ NoCallInProgress /\ raised = {} /\ nestedBy = {}
    /\ Len(calls) = 3
    /\ calls[1] # calls[2] /\ calls[2].kwds # {}
    /\ \A i \in Impls : Len(received[i]) = 3

\* C2 as claimed: whenever no proxied call is in progress, also after a call
\* in which an implementation raised, the log corresponds 1:1, in order, to
\* the invocations every implementation received.
C2_Original ==
    NoCallInProgress =>
        \A i \in Impls : Calls(i) = calls /\ Ids(i) = [n \in 1..Len(calls) |-> n]
\* C2 as amended: whenever no proxied call is in progress (the calls having
\* been made one after another), each implementation has received, in log
\* order, exactly the logged calls during which no implementation before it
\* raised: a call during which the k-th implementation raised is in the log
\* and was delivered to implementations 1..k only.
C2_LogMatchesDeliveryUpToRaise ==
    (NoCallInProgress /\ nestedBy = {}) =>
        \A i \in Impls :
            /\ Calls(i) = Reaching(i, Len(calls))
            /\ Increasing(Ids(i))
            /\ \A n \in 1..Len(calls) :
                  DeliveredTo(n, i) <=> ~ \E k \in Impls : k < i /\ <<n, k>> \in raised
C2_Witness ==
    /\ NoCallInProgress /\ nestedBy = {}
    /\ Len(calls) = 2
    /\ <<1, 1>> \in raised
    /\ ~DeliveredTo(1, NumImpls)
    /\ DeliveredTo(2, NumImpls)

\* C3 as claimed: every implementation receives the logged calls in log
\* order, also when an implementation calls the proxy from inside an
\* operation the proxy is forwarding to it.
C3_Original ==
    \A i \in Impls : Increasing(Ids(i)) /\ IsSubseq(Calls(i), calls)
\* C3 as amended: an implementation receives the logged calls in log order
\* as long as no implementation before it in the list has called the proxy
\* from inside a forwarded operation (such a nested call reaches the later
\* implementations before the call that encloses it).
C3_DeliveryOrderIsLogOrder ==
    \A i \in Impls :
        (\A k \in nestedBy : k >= i) =>
            Increasing(Ids(i)) /\ IsSubseq(Calls(i), calls)
C3_Witness ==
    /\ NoCallInProgress /\ raised = {}
    /\ nestedBy = {NumImpls}
    /\ \A i \in Impls : Len(received[i]) = 2 /\ Ids(i) = <<1, 2>>
    /\ calls[1] # calls[2]

\* C4: when the k-th implementation's operation raises during a proxied
\* call, the caller of that call sees that very error (not caught, not
\* replaced), the k-th implementation was invoked once for the call (no
\* retry) and no implementation after the k-th is invoked for it.
C4_RaisePropagates ==
    \A nk \in raised :
        LET n == nk[1]
            k == nk[2]
            e == outcomes[n]
        IN  /\ e.status = "raised"
            /\ <<e.origin, e.by>> \in raised
            /\ e.origin = n => e.by = k
            /\ Cardinality({p \in 1..Len(received[k]) : received[k][p].id = n}) = 1
            /\ \A j \in Impls : j > k => ~DeliveredTo(n, j)
C4_Witness ==
    /\ NoCallInProgress
    /\ <<2, 1>> \in raised
    /\ outcomes[1].status = "returned"
    /\ outcomes[2] = Error(1, 2)
    /\ DeliveredTo(1, NumImpls)

\* C5: invoking on the proxy an operation of the capability class that is
\* not marked as an action appends nothing to the shared log and invokes
\* nothing on any implementation.
C5_UnmarkedNotMirrored ==
    [][(invoked' # invoked /\ ~IsMarked(Last(invoked')))
          => (calls' = calls /\ received' = received /\ stack' = stack)]_vars
C5_Witness ==
    /\ Len(invoked) = 3
    /\ invoked[1].name = "init" /\ invoked[3].name = "teardown"
    /\ Len(calls) = 1
    /\ \A i \in Impls : Len(received[i]) = 1


(***************************************************************************)
(* Claims about the ports                                                  *)
(***************************************************************************)
\* The PortIns connected to pout, in the order of their connect calls.
RECURSIVE ConnectedTo(_, _)
ConnectedTo(pout, log) ==
    IF log = <<>> THEN <<>>
    ELSE IF log[Len(log)][2] = pout
         THEN Append(ConnectedTo(pout, SubSeq(log, 1, Len(log) - 1)), log[Len(log)][1])
         ELSE ConnectedTo(pout, SubSeq(log, 1, Len(log) - 1))
\* How many invocations of pin's receiver the last operation made.
DeliveriesTo(pin) == Cardinality({k \in 1..Len(delivered) : delivered[k].pin = pin})
Occurrences(list, x) == Cardinality({k \in 1..Len(list) : list[k] = x})
ConnectedOk == lastOp.op = "connect" /\ lastOp.err = "ok"

\* C6: when a PortIn Q with a bound receiver is connected to a cached
\* PortOut P whose most recent send carried v, Q's receiver is invoked
\* exactly once, with (Q's owner, v), during that connect, and no other
\* receiver is; an operation that is neither a connect nor a send invokes
\* no receiver.
C6_ReplayOnConnect ==
    /\ (ConnectedOk /\ Cached(Desc(lastOp.pout)) /\ lastSent[lastOp.pout] # Nil) =>
          /\ delivered = <<[pin |-> lastOp.pin, fn |-> firstBound[lastOp.desc],
                            owner |-> Owner(lastOp.pin),
                            value |-> lastSent[lastOp.pout]]>>
          /\ d[Owner(lastOp.pin)] = lastSent[lastOp.pout]
    /\ (ConnectedOk /\ lastSent[lastOp.pout] = Nil) => delivered = <<>>
    /\ lastOp.op \notin {"connect", "send"} => delivered = <<>>
C6_Witness ==
    /\ ConnectedOk
    /\ lastOp.pout = <<"c1", "d_out">>
    /\ lastOp.pin = <<"c2", "d_in">>
    /\ lastSent[lastOp.pout] = 0
    /\ Len(delivered) = 1
    /\ receivers[lastOp.pout] = <<<<"c1", "d_in">>, <<"c2", "d_in">>>>

\* C7: connecting a PortIn to a non-cached PortOut invokes no receiver,
\* whatever was sent on the port before; a send on the port invokes the
\* receiver of a PortIn connected to it once, and of a PortIn not connected
\* to it not at all.
C7_NoReplayWhenNotCached ==
    /\ (ConnectedOk /\ ~Cached(Desc(lastOp.pout))) =>
          delivered = <<>> /\ DeliveriesTo(lastOp.pin) = 0
    /\ (lastOp.op = "send" /\ ~Cached(Desc(lastOp.pout))) =>
          \A pin \in PortIns :
              LET n == Occurrences(ConnectedTo(lastOp.pout, connectLog), pin)
              IN  /\ n = 0 => DeliveriesTo(pin) = 0
                  /\ n = 1 => DeliveriesTo(pin) = 1
C7_Witness ==
    /\ ConnectedOk
    /\ lastOp.pout = <<"c1", "n_out">>
    /\ lastSent[lastOp.pout] = 1
    /\ latest_value[lastOp.pout] = 1
    /\ delivered = <<>>
    /\ d[Owner(lastOp.pin)] = 0
C7_WitnessSend ==
    /\ lastOp.op = "send"
    /\ lastOp.pout = <<"c1", "n_out">>
    /\ connectLog = <<<<<<"c1", "d_in">>, <<"c1", "n_out">>>>>>
    /\ Len(delivered) = 1

\* C8: send(value) invokes, before it returns, the receiver of every PortIn
\* connected to the PortOut, in the order in which they were connected,
\* each with (the PortIn's owning Component, the value sent).
C8_SendDeliversInConnectionOrder ==
    lastOp.op = "send" =>
        LET conn == ConnectedTo(lastOp.pout, connectLog)
        IN  /\ Len(delivered) = Len(conn)
            /\ \A k \in 1..Len(conn) :
                  delivered[k] = [pin |-> conn[k], fn |-> firstBound[Desc(conn[k])],
                                  owner |-> Owner(conn[k]), value |-> lastOp.value]
            /\ \A k \in 1..Len(conn) : d[Owner(conn[k])] = lastOp.value
C8_Witness ==
    /\ lastOp.op = "send"
    /\ lastOp.value = 1
    /\ ConnectedTo(lastOp.pout, connectLog) = <<<<"c2", "d_in">>, <<"c1", "e_in">>>>
    /\ Len(delivered) = 2
    /\ delivered[1].owner = "c2" /\ delivered[2].owner = "c1"

\* C9: connecting a PortIn whose descriptor has no receiver bound fails with
\* ModelingError, and a connect fails only then; the failed connect leaves
\* every PortOut's receiver list and latest_value and every connected flag
\* as they were.
C9_ConnectWithoutReceiverFails ==
    [][lastOp'.op = "connect" =>
          /\ lastOp'.err = "ModelingError" <=> receiver[lastOp'.desc] = None
          /\ lastOp'.err = "ModelingError" =>
                /\ receivers' = receivers
                /\ latest_value' = latest_value
                /\ connected' = connected
                /\ delivered' = <<>>
                /\ d' = d]_vars
C9_Witness ==
    /\ lastOp.op = "connect" /\ lastOp.err = "ModelingError"
    /\ lastOp.pout = <<"c1", "d_out">>
    /\ latest_value[lastOp.pout] = 1
    /\ receivers[lastOp.pout] = <<<<"c1", "d_in">>>>
    /\ connected["receive_d1"] = "True"

\* C10: binding a receiver to an input port that already has one fails with
\* ModelingError; the port's receiver stays the first one bound, and values
\* received on the port are delivered to it.
C10_ReceiverBoundOnce ==
    /\ \A desc \in InDescs : receiver[desc] = firstBound[desc]
    /\ lastOp.op = "bind" =>
          (lastOp.err = "ModelingError" <=> lastOp.pre # None)
    /\ \A k \in 1..Len(delivered) :
          delivered[k].fn = firstBound[Desc(delivered[k].pin)]
C10_Witness ==
    /\ lastOp.op = "bind" /\ lastOp.err = "ModelingError"
    /\ lastOp.fn = "receive_d2" /\ lastOp.pre = "receive_d1"
    /\ receiver[lastOp.desc] = "receive_d1"


\* C11 as claimed: a successful Q.connect(P) sets connected on the receiver
\* Action of Q's owning Component and changes the connected flag of no other
\* Action, the same-named Action of another Component of the class included.
C11_Original ==
    [][(lastOp'.op = "connect" /\ lastOp'.err = "ok") =>
          /\ ActionConnectedIn(connected', Owner(lastOp'.pin), lastOp'.fn)
          /\ \A c \in Comps, f \in Funcs :
                <<c, f>> # <<Owner(lastOp'.pin), lastOp'.fn>> =>
                    (ActionConnectedIn(connected', c, f) <=> ActionConnected(c, f))]_vars

\* C12 as claimed: a cached PortOut holds the value of its most recent send
\* (nil before the first), a non-cached PortOut holds nil whatever was sent.
C12_Original ==
    \A pout \in PortOuts :
        latest_value[pout] = IF Cached(Desc(pout)) THEN lastSent[pout] ELSE Nil


(***************************************************************************)
(* Claims about Component construction                                     *)
(***************************************************************************)
HasUntypedParam(cls) ==
    \E i \in 1..Len(cls) :
        cls[i].kind = "action" /\ \E k \in 1..Len(cls[i].params) : ~cls[i].params[k]
Count(seq, x) == Cardinality({k \in 1..Len(seq) : seq[k] = x})

C13_WitnessBuilt ==
    /\ consResult = "built"
    /\ consTrace = <<"action", "port_in", "variables", "init">>
    /\ invocations = 1

(***************************************************************************)
(* Claims about default values (DefSpec)                                   *)
(***************************************************************************)
\* What get_type_default gives for the parameter's annotation.
TypeDefaultWorth ==
    IF paramType = "rec" THEN [kind |-> "rec", x |-> 0, y |-> 0]
    ELSE Deep(IntVal(0))

\* C14 as stated: for a parameter with a registered getter,
\* get_default_value returns a value equal to what the getter yields for
\* the owner's current state, and the type default is used only when no
\* getter was registered.
C14_Original ==
    (lastDefOp.op = "get_default" /\ hasProvider) =>
        /\ Deep(lastDefault) = Deep(ownerD)
        /\ ~lastDefOp.typeDefault

\* C14 amended: when the registered getter yields a value other than None
\* for the owner's current state, get_default_value returns a value equal
\* to it; the type default is returned exactly when no getter was
\* registered or the getter yields None.
C14_DefaultTracksOwnerUnlessNone ==
    lastDefOp.op = "get_default" =>
        /\ (hasProvider /\ ownerD.kind # "none") =>
              /\ Deep(lastDefault) = Deep(ownerD)
              /\ ~lastDefOp.typeDefault
        /\ (~hasProvider \/ ownerD.kind = "none") =>
              /\ lastDefOp.typeDefault
              /\ Deep(lastDefault) = TypeDefaultWorth
C14_Witness ==
    /\ lastDefOp.op = "get_default"
    /\ hasProvider
    /\ ownerD.kind # "none"
    /\ Deep(ownerD) # Deep(dAtConstruction)
    /\ Deep(lastDefault) = Deep(ownerD)
    /\ Deep(lastDefault) # TypeDefaultWorth
C14_WitnessNoneYield ==
    /\ lastDefOp.op = "get_default"
    /\ hasProvider
    /\ ownerD.kind = "none"
    /\ ownerD # dAtConstruction
    /\ lastDefOp.typeDefault

\* C15 as stated: mutating the default that get_default_value returned for
\* a parameter with a registered getter, a nested part of it included,
\* leaves the owner's field (hence what the getter yields later) unchanged.
C15_Original ==
    [][(hasProvider /\ lastDefOp'.op \in {"mutate_top", "mutate_nested"}) =>
          Deep(ownerD)' = Deep(ownerD)]_vars

(***************************************************************************)
(* Claims about the ATM demonstration (AtmSpec)                            *)
(***************************************************************************)
\* Replaying a log, call by call, against fresh implementations: the
\* outcome of each call, up to the first that fails.
RECURSIVE ReplayFrom(_, _, _, _)
ReplayFrom(log, k, o, r) ==
    IF k > Len(log) THEN <<>>
    ELSE LET out == ProxyCall(o, r, log[k])
         IN  IF out.fail # "none" THEN <<out>>
             ELSE <<out>> \o ReplayFrom(log, k + 1, out.oracle, out.real)
Replay(log) == ReplayFrom(log, 1, FreshOracle, FreshReal)

\* C16 as stated: whatever the rules, enabled by the oracle's state, issue
\* through the proxy over [oracle, real], no assertion of AtmOracle or
\* RealAtm fails.
C16_Original ==
    atmFail # "AssertionError"

\* C17 as stated: replaying the call log, a log shared by successive runs
\* included, against fresh implementations reproduces the outcome of every
\* logged call: the same implementation states, or the same failure at the
\* same call.
C17_Original ==
    LET rp == Replay(atmCalls)
    IN  \A k \in 1..Len(atmCalls) :
            (\A j \in 1..(k - 1) : atmTrace[j].fail = "none") =>
                /\ k <= Len(rp)
                /\ rp[k] = atmTrace[k]

\* C18 as stated: a proxy over the demo's capability set gets built, and
\* the scenario insert_card(card), enter_pin(wrong), enter_pin(card's PIN),
\* choose_menu_item(withdraw) through it takes the oracle from Idle through
\* EnterPin(card, 0), EnterPin(card, 1) and Menu to Withdraw and leaves
\* exactly these four calls in the log, in call order.
Scenario ==
    << Call("insert_card", <<1>>, {}), Call("enter_pin", <<0>>, {}),
       Call("enter_pin", <<CardPin(1)>>, {}),
       Call("choose_menu_item", <<Item("withdraw")>>, {}) >>
C18_Original ==
    (cap = AtmIf /\ runs = 1) =>
        /\ proxyState = "built"
        /\ issued = Scenario =>
              /\ atmCalls = Scenario
              /\ [k \in 1..4 |-> atmTrace[k].oracle] =
                    << [state |-> "EnterPin", card |-> 1, pin_tries |-> 0],
                       [state |-> "EnterPin", card |-> 1, pin_tries |-> 1],
                       OState("Menu"), OState("Withdraw") >>

(***************************************************************************)
(* Claims about sending mutable values (MutSpec)                           *)
(***************************************************************************)
\* C19 as stated: whatever the receivers do to the value they are handed,
\* the object the sender passed to send, the PortOut's latest_value, and
\* the value handed to each receiver (later in the list, or on a later
\* connect) are all worth what the sender sent.
C19_Original ==
    mLatest # NoneVal =>
        /\ Deep(mSent) = mSentWorth
        /\ Deep(mLatest) = mSentWorth
        /\ \A k \in 1..Len(mHanded) : mHanded[k].worth = mSentWorth

(***************************************************************************)
(* Claims about propagation (PropSpec)                                     *)
(***************************************************************************)
\* The components whose receiver a send on n's PortOut gets to.
Succ(m) == { wire[m][i] : i \in 1..Len(wire[m]) }
RECURSIVE Closure(_, _)
Closure(S, k) ==
    IF k = 0 THEN S ELSE Closure(S \cup UNION { Succ(m) : m \in S }, k - 1)
Reach(n) == Closure(Succ(n), NumNodes)
\* The wiring leads from n's PortOut into a cycle.
CycleReachable(n) == \E m \in Reach(n) : m \in Reach(m)

\* C20: a send whose receivers lead into a cycle of the wiring never
\* returns, and the nesting of send calls grows up to any bound placed on
\* it; a send whose receivers lead into no cycle returns, having invoked
\* every reachable receiver at least once.
C20_NoCycleGuard ==
    /\ []((pstack # <<>> /\ CycleReachable(sendOrigin)) => [](pstack # <<>>))
    /\ (pstack # <<>> /\ CycleReachable(sendOrigin)) ~> (Len(pstack) = MaxNest)
    /\ (pstack # <<>> /\ ~CycleReachable(sendOrigin)) ~> (pstack = <<>>)
    /\ []((pstack = <<>> /\ sendOrigin # 0) =>
             \A m \in Reach(sendOrigin) : recvCount[m] >= 1)
C20_Witness ==
    /\ wire[1] = <<2>>
    /\ wire[2] = <<1>>
    /\ sendOrigin = 1
    /\ Len(pstack) = MaxNest
    /\ recvCount[1] >= 1
C20_WitnessAcyclic ==
    /\ wire[1] = <<2, 2>>
    /\ wire[2] = <<>>
    /\ sendOrigin = 1
    /\ pstack = <<>>
    /\ recvCount[2] = 2

(***************************************************************************)
(* Further claims about the ports (PortSpec)                               *)
(***************************************************************************)
\* C21 as stated: no PortIn occurs more than once in a PortOut's receivers
\* list, and a single send invokes no PortIn's receiver more than once.
C21_Original ==
    \A pout \in PortOuts, pin \in PortIns :
        /\ Occurrences(receivers[pout], pin) <= 1
        /\ lastOp.op = "send" => DeliveriesTo(pin) <= 1

(***************************************************************************)
(* Claims about structural defaults (TypeSpec)                             *)
(***************************************************************************)
\* C22 as stated: get_type_default returns the first enumerant for an
\* enumeration, a record with every field recursively defaulted for a
\* dataclass, the zero value for a plain type, and fails with
\* NotImplementedError, returning no value, for a collection or opaque type.
C22_Original ==
    typeResult # Pending =>
        /\ (defType.kind = "enum" /\ EnumMembers(defType.name) # <<>>) =>
              typeResult = Returns(Atom(EnumMembers(defType.name)[1]))
        /\ defType.kind = "plain" =>
              typeResult = Returns(Atom(ZeroOf(defType.name)))
        /\ (defType.kind = "dataclass" /\ typeResult.err = "none") =>
              /\ typeResult.val.kind = "record"
              /\ Len(typeResult.val.fields) = Len(defType.fields)
              /\ \A i \in 1..Len(defType.fields) :
                    Returns(typeResult.val.fields[i]) =
                        get_type_default(defType.fields[i])
        /\ defType.kind \in {"collection", "opaque"} =>
              typeResult.err = "NotImplementedError"

(***************************************************************************)
(* Further claims about the ATM demonstration (AtmSpec)                    *)
(***************************************************************************)
\* The precondition of some rule that calls the proxy holds.
SomeRuleEnabled ==
    \/ oracle.state = "Idle"
    \/ oracle.state = "EnterPin" /\ inserted_card # Nil
    \/ oracle.state = "Menu"
    \/ oracle.state = "ReturnCard"

\* C23 as stated, its first half: while a run goes on, in every oracle
\* state it reaches some rule that calls the proxy is enabled (without
\* which the oracle cannot always get back to Idle).
C23_Original ==
    (proxyState = "built" /\ atmFail = "none") => SomeRuleEnabled

\* C24 as stated: while a run goes on, the oracle is Idle exactly when
\* RealAtm holds no card, in ReturnCard exactly when RealAtm.canceled, and
\* in EnterPin its tries counter equals RealAtm.pin_tries.
C24_Original ==
    (proxyState = "built" /\ atmFail = "none") =>
        /\ oracle.state = "Idle" <=> real.card = Nil
        /\ oracle.state = "ReturnCard" <=> real.canceled
        /\ oracle.state = "EnterPin" => oracle.pin_tries = real.pin_tries

=============================================================================
